---------------------------- MODULE Spec2Model ----------------------------
(***************************************************************************)
(* A model of the webgl-classes toolkit: the Shader wrapper (Shader.js),   *)
(* the triangle Mesh (Shader.js), the Texture loader (Texture.js) and the  *)
(* Camera (the camera file).  Each class is an independent state machine   *)
(* over its own fields and the part of the WebGL context it touches; each  *)
(* has its own specification (ShaderSpec, MeshSpec, TextureSpec,           *)
(* CameraSpec) in which the other classes' variables stay at their initial *)
(* values.                                                                 *)
(***************************************************************************)
EXTENDS Integers, Sequences, FiniteSets, TLC

VARIABLES
    \* ---- Shader.js, Shader ----
    glShader,       \* WebGL context as the shader code sees it:
                    \* [nextId, currentProgram]
    alerts,         \* messages passed to alert(), in order
    consoleLog,     \* messages passed to console.log(), in order
    shaderCalls,    \* history: one record per Shader.fromDOM call
                    \* [vertOK, fragOK, linkOK, ret]
    \* ---- Shader.js, Mesh ----
    mesh,           \* the Mesh object built by a static factory, or NoMesh
    meshInput,      \* history: the factory call that built it
    normalsAccum,   \* history: this.normals after the accumulation loop
                    \* of generateNormals (before the normalisation loop)
    glMesh,         \* WebGL context as the mesh code sees it:
                    \* [nextId, arrayBuffer, elementArrayBuffer]
    \* ---- Texture.js ----
    images,         \* face index -> [id, status, src, extra] of each Image
    loadOrder,      \* face indices in the order their onload fired
    cubePromise,    \* state of the promise cubemapFromUrl returned
    glTex,          \* WebGL context as the texture code sees it:
                    \* [nextId, activeUnit, boundCube, texParams]
    texUploads,     \* gl.texImage2D calls made, in order
    textures,       \* Texture objects constructed, in order
    \* ---- Camera ----
    camera,         \* the Camera object's fields
    viewOut,        \* outMatrix of the last getViewMatrix call
    camTouched,     \* history: a rotate*/translate*/setWorldPos call was made
    camLast         \* history: the last such call, with the position a
                    \* setWorldPos was given

shaderVars  == <<glShader, alerts, consoleLog, shaderCalls>>
meshVars    == <<mesh, meshInput, normalsAccum, glMesh>>
textureVars == <<images, loadOrder, cubePromise, glTex, texUploads, textures>>
cameraVars  == <<camera, viewOut, camTouched, camLast>>
vars == <<shaderVars, meshVars, textureVars, cameraVars>>

(***************************************************************************)
(* Bounds of the model.                                                    *)
(***************************************************************************)
MaxShaderCalls == 3     \* Shader.fromDOM calls per behaviour

(***************************************************************************)
(* JavaScript values shared by the classes.                                *)
(***************************************************************************)
\* null, where a WebGL handle or an object is expected
Null == [kind |-> "null"]

\* a WebGL object handle returned by gl.create*()
Handle(kind, id) == [kind |-> kind, id |-> id]

\* glMatrix vec3.add, vec3.subtract, vec3.cross, vec3.dot on integer triples
Vec3Add(a, b) == << a[1] + b[1], a[2] + b[2], a[3] + b[3] >>
Vec3Subtract(a, b) == << a[1] - b[1], a[2] - b[2], a[3] - b[3] >>
Vec3Cross(a, b) ==
    << a[2] * b[3] - a[3] * b[2],
       a[3] * b[1] - a[1] * b[3],
       a[1] * b[2] - a[2] * b[1] >>
Vec3Dot(a, b) == a[1] * b[1] + a[2] * b[2] + a[3] * b[3]

(***************************************************************************)
(* Shader.js: compileShader, linkShaderProgram, class Shader               *)
(***************************************************************************)
\* The name compileShader's switch gives to a shader type.
ShaderTypeName(type) ==
    CASE type = "VERTEX_SHADER" -> "vertex"
      [] type = "FRAGMENT_SHADER" -> "fragment"
      [] OTHER -> "unknown"

\* compileShader(source, type).  compileOK is COMPILE_STATUS, the driver's
\* verdict on the source.  st = [gl, alerts, log]; the result adds ret.
CompileShader(compileOK, type, st) ==
    LET shader == Handle("WebGLShader", st.gl.nextId)
        gl1 == [st.gl EXCEPT !.nextId = @ + 1]
    IN  IF ~compileOK
        THEN [gl |-> gl1,
              alerts |-> Append(st.alerts,
                  "Failed to compile " \o ShaderTypeName(type) \o " shader!"),
              log |-> Append(st.log, "Error compiling shader: "),
              ret |-> Null]
        ELSE [gl |-> gl1, alerts |-> st.alerts, log |-> st.log, ret |-> shader]

\* linkShaderProgram(vertShader, fragShader).  linkOK is LINK_STATUS.
LinkShaderProgram(linkOK, vertShader, fragShader, st) ==
    LET program == Handle("WebGLProgram", st.gl.nextId)
        gl1 == [st.gl EXCEPT !.nextId = @ + 1]
    IN  IF ~linkOK
        THEN [gl |-> gl1,
              alerts |-> Append(st.alerts, "Failed to link shader!"),
              log |-> Append(st.log, "Error linking shader: "),
              ret |-> Null]
        ELSE [gl |-> gl1, alerts |-> st.alerts, log |-> st.log, ret |-> program]

\* new Shader(shaderProgramHandle)
NewShader(shaderProgramHandle) ==
    [kind |-> "Shader", program |-> shaderProgramHandle]

\* Shader.fromDOM(vertElem, fragElem): the value returned and the state left.
\* Both sources are compiled, the vertex shader first, whatever the first
\* compilation gave.
ShaderFromDOM(vertOK, fragOK, linkOK, st) ==
    LET c1 == CompileShader(vertOK, "VERTEX_SHADER", st)
        c2 == CompileShader(fragOK, "FRAGMENT_SHADER", c1)
    IN  IF c1.ret # Null /\ c2.ret # Null
        THEN LET l == LinkShaderProgram(linkOK, c1.ret, c2.ret, c2)
             IN  [l EXCEPT !.ret = NewShader(l.ret)]
        ELSE [c2 EXCEPT !.ret = Null]

ShaderInit ==
    /\ glShader = [nextId |-> 1, currentProgram |-> Null]
    /\ alerts = <<>>
    /\ consoleLog = <<>>
    /\ shaderCalls = <<>>

\* A call of Shader.fromDOM; the driver decides the three statuses.
FromDOM ==
    /\ Len(shaderCalls) < MaxShaderCalls
    /\ \E vertOK \in BOOLEAN, fragOK \in BOOLEAN, linkOK \in BOOLEAN :
        LET r == ShaderFromDOM(vertOK, fragOK, linkOK,
                     [gl |-> glShader, alerts |-> alerts, log |-> consoleLog])
        IN  /\ glShader' = r.gl
            /\ alerts' = r.alerts
            /\ consoleLog' = r.log
            /\ shaderCalls' = Append(shaderCalls,
                   [vertOK |-> vertOK, fragOK |-> fragOK, linkOK |-> linkOK,
                    ret |-> r.ret])
    /\ UNCHANGED <<meshVars, textureVars, cameraVars>>

\* shader.use() on a Shader object that an earlier fromDOM returned.
Use ==
    /\ \E i \in 1..Len(shaderCalls) :
        /\ shaderCalls[i].ret # Null
        /\ glShader' = [glShader EXCEPT
               !.currentProgram = shaderCalls[i].ret.program]
    /\ UNCHANGED <<alerts, consoleLog, shaderCalls>>
    /\ UNCHANGED <<meshVars, textureVars, cameraVars>>

ShaderNext == FromDOM \/ Use


(***************************************************************************)
(* Shader.js: class Mesh.                                                  *)
(*                                                                         *)
(* A JavaScript number is a record [k, n, d2]: an integer n (k = "num"),   *)
(* NaN, undefined (what reading a missing array element gives), or the     *)
(* component n / sqrt(d2) of a normalised vector (k = "unit").  A string   *)
(* is a sequence of one-character strings.                                 *)
(***************************************************************************)
MaxLines == 3           \* lines of the OBJ texts made of LineChoices
TriCoord == 1           \* |coordinate| of the edge vectors of TriangleTexts

Num(i) == [k |-> "num", n |-> i, d2 |-> 1]
NaN == [k |-> "nan", n |-> 0, d2 |-> 0]
Undefined == [k |-> "undefined", n |-> 0, d2 |-> 0]
IsNum(x) == x.k = "num"

\* a + b, a - b, a * b, a < b on numbers: NaN (or undefined) in, NaN out;
\* a comparison with NaN is false.
NumAdd(a, b) == IF IsNum(a) /\ IsNum(b) THEN Num(a.n + b.n) ELSE NaN
NumSub(a, b) == IF IsNum(a) /\ IsNum(b) THEN Num(a.n - b.n) ELSE NaN
NumMul(a, b) == IF IsNum(a) /\ IsNum(b) THEN Num(a.n * b.n) ELSE NaN
NumLess(a, b) == IsNum(a) /\ IsNum(b) /\ a.n < b.n

\* arr[idx] of a JavaScript array: undefined outside 0 .. length - 1.
ArrayGet(arr, idx) ==
    IF IsNum(idx) /\ idx.n >= 0 /\ idx.n < Len(arr)
    THEN arr[idx.n + 1] ELSE Undefined

\* arr[idx] = val: an index past the end grows the array, leaving holes;
\* a negative or NaN index names a property and leaves the elements alone.
ArraySet(arr, idx, val) ==
    IF ~(IsNum(idx) /\ idx.n >= 0) THEN arr
    ELSE IF idx.n < Len(arr) THEN [arr EXCEPT ![idx.n + 1] = val]
    ELSE arr \o [h \in 1..(idx.n - Len(arr)) |-> Undefined] \o << val >>

\* A value stored into a Float32Array (a glMatrix vec3): undefined
\* becomes NaN.
ToFloat32(x) == IF x.k = "undefined" THEN NaN ELSE x

\* ---- strings ----
Digits == << "0", "1", "2", "3", "4", "5", "6", "7", "8", "9" >>
IsDigit(c) == \E i \in 1..Len(Digits) : Digits[i] = c
DigitVal(c) == (CHOOSE i \in 1..Len(Digits) : Digits[i] = c) - 1

IndexOf(s, c) ==
    IF \E i \in 1..Len(s) : s[i] = c
    THEN CHOOSE i \in 1..Len(s) : s[i] = c /\ \A h \in 1..(i - 1) : s[h] # c
    ELSE 0

\* s.split(c) for a one-character separator
RECURSIVE SplitChar(_, _)
SplitChar(s, c) ==
    LET i == IndexOf(s, c)
    IN  IF i = 0 THEN << s >>
        ELSE << SubSeq(s, 1, i - 1) >> \o SplitChar(SubSeq(s, i + 1, Len(s)), c)

\* s.split(/ +/): the separators are the maximal runs of spaces
RECURSIVE SplitSpaces(_)
SplitSpaces(s) ==
    LET i == IndexOf(s, " ")
    IN  IF i = 0 THEN << s >>
        ELSE LET rest == { h \in i..Len(s) : s[h] # " " }
                 j == IF rest = {} THEN Len(s) + 1
                      ELSE CHOOSE h \in rest : \A g \in rest : h <= g
             IN  << SubSeq(s, 1, i - 1) >> \o SplitSpaces(SubSeq(s, j, Len(s)))

\* The value of the longest prefix of s made of digits, from acc.
RECURSIVE DigitsValue(_, _)
DigitsValue(s, acc) ==
    IF s = << >> \/ ~IsDigit(Head(s)) THEN acc
    ELSE DigitsValue(Tail(s), 10 * acc + DigitVal(Head(s)))

\* parseInt(tok): an optional sign, then decimal digits; NaN when no digit
\* follows.  The texts of the model hold no blank other than the space and
\* no radix prefix.
ParseInt(tok) ==
    LET signed == tok # << >> /\ Head(tok) \in { "-", "+" }
        body == IF signed THEN Tail(tok) ELSE tok
    IN  IF body = << >> \/ ~IsDigit(Head(body)) THEN NaN
        ELSE IF signed /\ Head(tok) = "-" THEN Num(-DigitsValue(body, 0))
        ELSE Num(DigitsValue(body, 0))

\* parseFloat(tok).  The texts of the model hold no ".", no exponent and
\* no "Infinity", so the decimal literal parseFloat reads is the signed
\* digit string parseInt reads.
ParseFloat(tok) == ParseInt(tok)

\* String(undefined): what parseInt and parseFloat read when handed a
\* missing element of split.
UndefinedString == << "u", "n", "d", "e", "f", "i", "n", "e", "d" >>

\* split[i] of the array split() returned, as the string the parser reads
Token(split, i) == IF i < Len(split) THEN split[i + 1] ELSE UndefinedString

\* ---- the Mesh object ----
With(m, name, val) ==
    [f \in DOMAIN m \cup { name } |-> IF f = name THEN val ELSE m[f]]

\* new Mesh(): the fields the constructor sets
NewMesh ==
    [vertices |-> << >>, faces |-> << >>, normals |-> << >>,
     numFaces |-> 0, numVertices |-> 0,
     minXYZ |-> << Num(0), Num(0), Num(0) >>,
     maxXYZ |-> << Num(0), Num(0), Num(0) >>]

\* The alert of the constructor when OES_element_index_uint is missing.
MeshConstructorAlerts(g, al) ==
    IF g.hasElementIndexUint THEN al
    ELSE Append(al, "OES_element_index_uint is unsupported by your browser!")

\* computeAABB(): the loop over the coordinates from position i (0-based).
RECURSIVE ComputeAABBFrom(_, _)
ComputeAABBFrom(m, i) ==
    IF i >= Len(m.vertices) THEN m
    ELSE LET c == m.vertices[i + 1]
             j == (i % 3) + 1
             m1 == IF NumLess(c, m.minXYZ[j])
                   THEN [m EXCEPT !.minXYZ[j] = c] ELSE m
             m2 == IF NumLess(m1.maxXYZ[j], c)
                   THEN [m1 EXCEPT !.maxXYZ[j] = c] ELSE m1
         IN  CHOOSE result \in
                 { ComputeAABBFrom(next, i + 1) : next \in { m2 } } : TRUE

ComputeAABB(m) == ComputeAABBFrom(m, 0)

\* getVertex(id): a vec3 (Float32Array) of the three coordinates
GetVertex(m, id) ==
    LET vid == NumMul(Num(3), id)
    IN  [j \in 1..3 |->
            ToFloat32(ArrayGet(m.vertices, NumAdd(vid, Num(j - 1))))]

NumVec3Subtract(a, b) == [j \in 1..3 |-> NumSub(a[j], b[j])]
\* Mutant of NumVec3Cross: the operands are taken in the other order.
NumVec3CrossSwapped(a, b) ==
    << NumSub(NumMul(b[2], a[3]), NumMul(b[3], a[2])),
       NumSub(NumMul(b[3], a[1]), NumMul(b[1], a[3])),
       NumSub(NumMul(b[1], a[2]), NumMul(b[2], a[1])) >>

\* vec3.cross(n, a, b)
NumVec3Cross(a, b) ==
    << NumSub(NumMul(a[2], b[3]), NumMul(a[3], b[2])),
       NumSub(NumMul(a[3], b[1]), NumMul(a[1], b[3])),
       NumSub(NumMul(a[1], b[2]), NumMul(a[2], b[1])) >>

RECURSIVE Gcd(_, _)
Gcd(a, b) == IF b = 0 THEN a ELSE Gcd(b, a % b)
Abs(i) == IF i < 0 THEN -i ELSE i

\* vec3.normalize(n, n): NaN in any component makes the length, and so
\* every component, NaN; the zero vector stays zero.  Otherwise the result
\* is p / sqrt(p . p) for the primitive integer vector p along n, which
\* names the unit vector uniquely.
Vec3Normalize(v) ==
    IF \E j \in 1..3 : ~IsNum(v[j]) THEN << NaN, NaN, NaN >>
    ELSE LET g == Gcd(Gcd(Abs(v[1].n), Abs(v[2].n)), Abs(v[3].n))
         IN  IF g = 0 THEN << Num(0), Num(0), Num(0) >>
             ELSE LET p == [j \in 1..3 |-> v[j].n \div g]
                      d2 == p[1] * p[1] + p[2] * p[2] + p[3] * p[3]
                  IN  [j \in 1..3 |->
                          IF p[j] = 0 \/ d2 = 1 THEN Num(p[j])
                          ELSE [k |-> "unit", n |-> p[j], d2 |-> d2]]

\* The accumulation of one face normal n into the normal slots of vertex v
\* (one column of the inner loop of generateNormals).
AccumulateVertex(normals, v, n, j) ==
    LET idx == NumAdd(NumMul(Num(3), v), Num(j))
    IN  ArraySet(normals, idx, NumAdd(ArrayGet(normals, idx), n[j + 1]))

\* One pass j of the inner loop.  The loops are written statement after
\* statement: the array an assignment leaves is bound as the element of a
\* one-element set and the statements after it run on that value.
RECURSIVE AccumulateComponents(_, _, _, _)
AccumulateComponents(normals, vs, n, j) ==
    IF j >= 3 THEN normals
    ELSE CHOOSE result \in
             { AccumulateComponents(a3, vs, n, j + 1) :
                 a3 \in { AccumulateVertex(a2, vs[3], n, j) :
                 a2 \in { AccumulateVertex(a1, vs[2], n, j) :
                 a1 \in { AccumulateVertex(normals, vs[1], n, j) } } } } : TRUE

\* generateNormals(), second loop: the faces from face i on.
RECURSIVE AccumulateFaces(_, _, _)
AccumulateFaces(m, normals, i) ==
    IF i >= m.numFaces THEN normals
    ELSE LET vs == [h \in 1..3 |-> ArrayGet(m.faces, Num(3 * i + h - 1))]
             v1Vec == GetVertex(m, vs[1])
             v2Vec == GetVertex(m, vs[2])
             v3Vec == GetVertex(m, vs[3])
             e1 == NumVec3Subtract(v2Vec, v1Vec)
             e2 == NumVec3Subtract(v3Vec, v1Vec)
             n == NumVec3Cross(e1, e2)
         IN  CHOOSE result \in
                 { AccumulateFaces(m, next, i + 1) :
                     next \in { AccumulateComponents(normals, vs, n, 0) } } : TRUE

\* generateNormals(), up to the end of the accumulation loop: this.normals
AccumulatedNormals(m) ==
    AccumulateFaces(m, [i \in 1..(3 * m.numVertices) |-> Num(0)], 0)

\* generateNormals(), last loop: normalise the vectors of vertices
\* 0 .. numNormals - 1 in place.
NormalizeNormals(normals, numNormals) ==
    [i \in 1..Len(normals) |->
        LET v == (i - 1) \div 3
        IN  IF v < numNormals
            THEN Vec3Normalize(<< ArrayGet(normals, Num(3 * v)),
                                  ArrayGet(normals, Num(3 * v + 1)),
                                  ArrayGet(normals, Num(3 * v + 2)) >>)
                     [((i - 1) % 3) + 1]
            ELSE normals[i]]

\* generateNormals()
GenerateNormals(m) ==
    LET m1 == With(m, "numNormals", m.numVertices)
    IN  [m1 EXCEPT !.normals =
            NormalizeNormals(AccumulatedNormals(m1), m1.numNormals)]

\* gl.createBuffer() + numItems + gl.bufferData(target, new <type>(data))
\* for one of the three buffers of generateBuffers.
CreateBuffer(id, numItems, type, data) ==
    [buffer |-> Handle("WebGLBuffer", id), numItems |-> numItems,
     type |-> type, length |-> Len(data)]

\* Mutant of GenerateBuffers: the index buffer counts faces, not indices.
GenerateBuffersItemsPerFace(m, g) ==
    LET vb == CreateBuffer(g.nextId, m.numVertices, "Float32Array", m.vertices)
        nb == CreateBuffer(g.nextId + 1, m.numVertices, "Float32Array", m.normals)
        ib == CreateBuffer(g.nextId + 2, m.numFaces, "Uint32Array", m.faces)
    IN  [mesh |-> With(With(With(m, "vertexBuffer", vb), "normalBuffer", nb),
                       "indexBuffer", ib),
         gl |-> [g EXCEPT !.nextId = @ + 3,
                          !.arrayBuffer = nb.buffer,
                          !.elementArrayBuffer = ib.buffer,
                          !.bufferData = @ \cup { vb, nb, ib }]]

\* generateBuffers(): the mesh with its three buffers, and the context
GenerateBuffers(m, g) ==
    LET vb == CreateBuffer(g.nextId, m.numVertices, "Float32Array", m.vertices)
        nb == CreateBuffer(g.nextId + 1, m.numVertices, "Float32Array", m.normals)
        ib == CreateBuffer(g.nextId + 2, m.numFaces * 3, "Uint32Array", m.faces)
    IN  [mesh |-> With(With(With(m, "vertexBuffer", vb), "normalBuffer", nb),
                       "indexBuffer", ib),
         gl |-> [g EXCEPT !.nextId = @ + 3,
                          !.arrayBuffer = nb.buffer,
                          !.elementArrayBuffer = ib.buffer,
                          !.bufferData = @ \cup { vb, nb, ib }]]

\* mesh.vertices.push(a, b, c) / mesh.faces.push(a, b, c)
Push3(arr, a, b, c) == arr \o << a, b, c >>

\* Mutant of FaceIndex: the 1-based index of the text is stored as it is.
FaceIndexOneBased(tok) == ParseInt(tok)

\* A face index of an OBJ "f" line as stored: parseInt(token) - 1
FaceIndex(tok) == NumSub(ParseInt(tok), Num(1))

\* Mutant of ObjLine: a line is taken for a vertex or face line when its
\* first token starts with "v" or "f".
ObjLineByFirstLetter(m, line) ==
    IF line # << >> /\ line[1] = "#" THEN m
    ELSE LET split == SplitSpaces(line)
         IN  IF split[1] # << >> /\ split[1][1] = "v"
             THEN [m EXCEPT !.vertices =
                      Push3(@, ParseFloat(Token(split, 1)),
                               ParseFloat(Token(split, 2)),
                               ParseFloat(Token(split, 3)))]
             ELSE IF split[1] # << >> /\ split[1][1] = "f"
             THEN [m EXCEPT !.faces =
                      Push3(@, FaceIndex(Token(split, 1)),
                               FaceIndex(Token(split, 2)),
                               FaceIndex(Token(split, 3)))]
             ELSE m

\* Mesh.fromObj, the body of the loop over the lines for one line
ObjLine(m, line) ==
    IF line # << >> /\ line[1] = "#" THEN m
    ELSE LET split == SplitSpaces(line)
         IN  IF split[1] = << "v" >>
             THEN [m EXCEPT !.vertices =
                      Push3(@, ParseFloat(Token(split, 1)),
                               ParseFloat(Token(split, 2)),
                               ParseFloat(Token(split, 3)))]
             ELSE IF split[1] = << "f" >>
             THEN [m EXCEPT !.faces =
                      Push3(@, FaceIndex(Token(split, 1)),
                               FaceIndex(Token(split, 2)),
                               FaceIndex(Token(split, 3)))]
             ELSE m

RECURSIVE ObjLines(_, _)
ObjLines(m, lines) ==
    IF lines = << >> THEN m
    ELSE ObjLines(ObjLine(m, Head(lines)), Tail(lines))

\* The tail every factory ends with: computeAABB(), generateNormals(),
\* generateBuffers().  accum is this.normals between the last two loops of
\* generateNormals.
FinishMesh(m, g) ==
    LET m1 == ComputeAABB(m)
        m2 == GenerateNormals(m1)
        r == GenerateBuffers(m2, g)
    IN  [mesh |-> r.mesh, gl |-> r.gl,
         accum |-> AccumulatedNormals(With(m1, "numNormals", m1.numVertices))]

\* Mesh.fromObj(fileText)
MeshFromObj(fileText, g) ==
    LET lines == SplitChar(fileText, "\n")
        m1 == ObjLines(NewMesh, lines)
        m2 == [m1 EXCEPT !.numVertices = Len(m1.vertices) \div 3,
                         !.numFaces = Len(m1.faces) \div 3]
    IN  FinishMesh(m2, g)

\* Mesh.fromPlane(axis): the normals the branch for the axis pushes
PlaneNormals(axis) ==
    LET four(a, b, c) == << Num(a), Num(b), Num(c), Num(a), Num(b), Num(c),
                            Num(a), Num(b), Num(c), Num(a), Num(b), Num(c) >>
    IN  CASE axis \in { "z", "Z" } -> four(0, 0, 1)
          [] axis \in { "x", "X" } -> four(1, 0, 0)
          [] axis \in { "y", "Y" } -> four(0, 1, 0)
          [] OTHER -> << >>

\* Mesh.fromPlane(axis): the vertices the branch for the axis pushes
PlaneVertices(axis) ==
    LET nums(s) == [i \in 1..Len(s) |-> Num(s[i])]
    IN  CASE axis \in { "z", "Z" } ->
                 nums(<< -1,-1,0,  1,-1,0,  1,1,0,  -1,1,0 >>)
          [] axis \in { "x", "X" } ->
                 nums(<< 0,-1,-1,  0,-1,1,  0,1,1,  0,1,-1 >>)
          [] axis \in { "y", "Y" } ->
                 nums(<< -1,0,-1,  1,0,-1,  1,0,1,  -1,0,1 >>)
          [] OTHER -> << >>

\* Mesh.fromPlane(axis)
MeshFromPlane(axis, g) ==
    LET m1 == [NewMesh EXCEPT !.vertices = PlaneVertices(axis),
                              !.normals = PlaneNormals(axis)]
        m2 == [m1 EXCEPT !.faces =
                  Push3(Push3(@, Num(0), Num(1), Num(2)), Num(0), Num(2), Num(3))]
        m3 == [m2 EXCEPT !.numVertices = 4, !.numFaces = 2]
    IN  FinishMesh(m3, g)

\* 0.5 * size for the sizes of the model: an even integer, or NaN (what a
\* missing or non-numeric size multiplies to).
HalfOf(size) == IF IsNum(size) THEN Num(size.n \div 2) ELSE NaN

\* Mesh.fromCube(size): the eight corners, as the signs of the pushed
\* -0.5 / 0.5 coordinates, and the twelve triangles pushed
CubeCornerSigns ==
    << -1, 1,-1,   1, 1,-1,   1, 1, 1,  -1, 1, 1,
       -1,-1,-1,   1,-1,-1,   1,-1, 1,  -1,-1, 1 >>
CubeFaceIndices ==
    << 0, 1, 2, 0, 2, 3,   3, 2, 6, 3, 6, 7,   5, 4, 6, 4, 7, 6,
       1, 0, 5, 0, 4, 5,   2, 1, 5, 2, 5, 6,   0, 3, 7, 0, 7, 4 >>

\* Mesh.fromCube(size)
MeshFromCube(size, g) ==
    LET m1 == [NewMesh EXCEPT !.vertices =
                  [i \in 1..Len(CubeCornerSigns) |->
                      NumMul(Num(CubeCornerSigns[i]), HalfOf(size))]]
        m2 == [m1 EXCEPT !.faces =
                  [i \in 1..Len(CubeFaceIndices) |-> Num(CubeFaceIndices[i])]]
        m3 == [m2 EXCEPT !.numVertices = 8, !.numFaces = 12]
    IN  FinishMesh(m3, g)

\* ---- the arguments the factories are tried with ----
\* Lines of OBJ text: well-formed vertex and face lines (one coordinate
\* sign per axis, a doubled space, index/texcoord pairs, an index past the
\* vertices), a comment, a blank line, a "vn" line, a vertex line short of
\* a coordinate and a line that starts with a space.
LineChoices ==
    {
      << "v", " ", "1", " ", "2", " ", "3" >>,      \* 'v 1 2 3'
      << "v", " ", "-", "1", " ", "-", "2", " ", "-", "3" >>,      \* 'v -1 -2 -3'
      << "v", " ", " ", "-", "2", " ", "0", " ", "1" >>,      \* 'v  -2 0 1'
      << "f", " ", "1", " ", "2", " ", "3" >>,      \* 'f 1 2 3'
      << "f", " ", "3", "/", "3", " ", "1", "/", "1", " ", "2", "/", "2" >>,      \* 'f 3/3 1/1 2/2'
      << "f", " ", "2", " ", "4", " ", "1" >>,      \* 'f 2 4 1'
      << "#", " ", "v", " ", "1", " ", "1", " ", "1" >>,      \* '# v 1 1 1'
      << >>,      \* ''
      << "v", "n", " ", "0", " ", "0", " ", "1" >>,      \* 'vn 0 0 1'
      << "v", " ", "1", " ", "2" >>,      \* 'v 1 2'
      << " ", "f", " ", "1", " ", "2" >>       \* ' f 1 2'
    }

RECURSIVE JoinLines(_)
JoinLines(ls) ==
    IF ls = << >> THEN << >>
    ELSE IF Len(ls) = 1 THEN ls[1]
    ELSE ls[1] \o << "\n" >> \o JoinLines(Tail(ls))

\* The texts of at most MaxLines lines of LineChoices
LineTexts ==
    { JoinLines(ls) :
        ls \in UNION { [1..n -> LineChoices] : n \in 0..MaxLines } }

\* Decimal text of an integer
RECURSIVE FormatNat(_)
FormatNat(n) ==
    IF n < 10 THEN << Digits[n + 1] >>
    ELSE FormatNat(n \div 10) \o << Digits[(n % 10) + 1] >>
FormatInt(i) == IF i < 0 THEN << "-" >> \o FormatNat(-i) ELSE FormatNat(i)

\* The OBJ line "<head> a b c"
FormatLine(head, t) ==
    << head, " " >> \o FormatInt(t[1]) \o << " " >> \o FormatInt(t[2])
        \o << " " >> \o FormatInt(t[3])

\* The texts of a single triangle: three vertex lines and one face line
\* over them.  The vertices are TriangleBase, TriangleBase + e1 and
\* TriangleBase + e2, for e1 of coordinates within TriCoord and e2 one of
\* SecondEdges (the zero vector and vectors parallel to some e1 included).
TriangleBase == << 1, -2, 0 >>
TriangleFaces == { << 1, 2, 3 >>, << 3, 1, 2 >> }
EdgeVectors ==
    { << x, y, z >> : x \in -TriCoord..TriCoord, y \in -TriCoord..TriCoord,
                      z \in -TriCoord..TriCoord }
SecondEdges ==
    { << 0, 1, 0 >>, << 1, 1, 0 >>, << 0, 0, -1 >>, << 2, 1, -1 >>,
      << -1, 0, 1 >>, << 0, 0, 0 >> }
TriangleTexts ==
    { JoinLines(<< FormatLine("v", TriangleBase),
                   FormatLine("v", Vec3Add(TriangleBase, e1)),
                   FormatLine("v", Vec3Add(TriangleBase, e2)),
                   FormatLine("f", f) >>) :
        e1 \in EdgeVectors, e2 \in SecondEdges, f \in TriangleFaces }

ObjTexts == LineTexts \cup TriangleTexts

\* The axis arguments: the three axes in either case, and another string
PlaneAxes == { "x", "X", "y", "Y", "z", "Z", "w" }

\* The size arguments: even integers of either sign, zero, and no number
CubeSizes == { Num(2), Num(4), Num(-2), Num(0), NaN }

NoMesh == [kind |-> "none"]

MeshInit ==
    /\ mesh = NoMesh
    /\ meshInput = [op |-> "none"]
    /\ normalsAccum = << >>
    /\ \E ext \in BOOLEAN :
        glMesh = [nextId |-> 1, hasElementIndexUint |-> ext,
                  arrayBuffer |-> Null, elementArrayBuffer |-> Null,
                  bufferData |-> {}]

\* No mesh is built (the other classes' specifications).
MeshIdle ==
    /\ mesh = NoMesh
    /\ meshInput = [op |-> "none"]
    /\ normalsAccum = << >>
    /\ glMesh = [nextId |-> 1, hasElementIndexUint |-> TRUE,
                 arrayBuffer |-> Null, elementArrayBuffer |-> Null,
                 bufferData |-> {}]

\* mesh = Mesh.fromObj(fileText)
FromObj ==
    /\ mesh = NoMesh
    /\ \E fileText \in ObjTexts :
        \E r \in { MeshFromObj(fileText, glMesh) } :
            /\ mesh' = r.mesh
            /\ normalsAccum' = r.accum
            /\ glMesh' = r.gl
            /\ meshInput' = [op |-> "fromObj", fileText |-> fileText]
    /\ alerts' = MeshConstructorAlerts(glMesh, alerts)
    /\ UNCHANGED <<glShader, consoleLog, shaderCalls, textureVars, cameraVars>>

\* mesh = Mesh.fromPlane(axis)
FromPlane ==
    /\ mesh = NoMesh
    /\ \E axis \in PlaneAxes :
        \E r \in { MeshFromPlane(axis, glMesh) } :
            /\ mesh' = r.mesh
            /\ normalsAccum' = r.accum
            /\ glMesh' = r.gl
            /\ meshInput' = [op |-> "fromPlane", axis |-> axis]
    /\ alerts' = MeshConstructorAlerts(glMesh, alerts)
    /\ UNCHANGED <<glShader, consoleLog, shaderCalls, textureVars, cameraVars>>

\* mesh = Mesh.fromCube(size)
FromCube ==
    /\ mesh = NoMesh
    /\ \E size \in CubeSizes :
        \E r \in { MeshFromCube(size, glMesh) } :
            /\ mesh' = r.mesh
            /\ normalsAccum' = r.accum
            /\ glMesh' = r.gl
            /\ meshInput' = [op |-> "fromCube", size |-> size]
    /\ alerts' = MeshConstructorAlerts(glMesh, alerts)
    /\ UNCHANGED <<glShader, consoleLog, shaderCalls, textureVars, cameraVars>>

MeshNext == FromObj \/ FromPlane \/ FromCube

(***************************************************************************)
(* Texture.js: class Texture                                               *)
(***************************************************************************)
\* The cube-map face targets in the order cubemapFromUrl requests them
\* (negX, negY, negZ, posX, posY, posZ).
CubeFaces ==
    << "TEXTURE_CUBE_MAP_NEGATIVE_X", "TEXTURE_CUBE_MAP_NEGATIVE_Y",
       "TEXTURE_CUBE_MAP_NEGATIVE_Z", "TEXTURE_CUBE_MAP_POSITIVE_X",
       "TEXTURE_CUBE_MAP_POSITIVE_Y", "TEXTURE_CUBE_MAP_POSITIVE_Z" >>

FaceIds == 1..Len(CubeFaces)

\* The url arguments a call is tried with: six different files, or one
\* file for all faces.
UrlChoices ==
    { << "nx.png", "ny.png", "nz.png", "px.png", "py.png", "pz.png" >>,
      << "sky.png", "sky.png", "sky.png", "sky.png", "sky.png", "sky.png" >> }

TextureUnits == { "TEXTURE0", "TEXTURE1" }

\* Texture.imageFromUrl(url, extra): the Image whose load the returned
\* promise waits for.  The promise resolves with the image when onload
\* fires; nothing is registered for a failed load.
ImageFromUrl(id, url, extra) ==
    [id |-> id, status |-> "loading", src |-> url, extra |-> extra]

\* The promises array of cubemapFromUrl.
CubemapRequests(urls) ==
    [i \in FaceIds |-> ImageFromUrl(i, urls[i], [face |-> CubeFaces[i]])]

\* Mutant of AllLoaded: the join fires once every load has settled.
AllSettled(imgs) == \A i \in DOMAIN imgs : imgs[i].status # "loading"

\* Promise.all(promises) is fulfilled once every image promise is.
AllLoaded(imgs) == \A i \in DOMAIN imgs : imgs[i].status = "loaded"

\* Mutant of PromiseAllValues: the images in the order their loads completed.
ValuesInLoadOrder(imgs, order) == [k \in DOMAIN order |-> imgs[order[k]]]

\* The values Promise.all passes on: the images in the order of the
\* promises array, whatever the order the loads completed in.
PromiseAllValues(imgs, order) == [i \in DOMAIN imgs |-> imgs[i]]

\* One gl.texImage2D(values[i].extra.face, 0, RGBA, RGBA, UNSIGNED_BYTE,
\* values[i]) call.
TexImage2D(value) ==
    [target |-> value.extra.face, image |-> value.id, src |-> value.src]

\* new Texture()
NewTexture(g) ==
    [texture |-> Handle("WebGLTexture", g.nextId), textureType |-> "0"]

\* The four gl.texParameteri(gl.TEXTURE_CUBE_MAP, pname, param) calls of
\* cubemapFromUrl; they set the texture bound on the active unit.
CubemapParameters ==
    { [pname |-> "TEXTURE_MAG_FILTER", param |-> "LINEAR"],
      [pname |-> "TEXTURE_MIN_FILTER", param |-> "LINEAR"],
      [pname |-> "TEXTURE_WRAP_S", param |-> "CLAMP_TO_EDGE"],
      [pname |-> "TEXTURE_WRAP_T", param |-> "CLAMP_TO_EDGE"] }

TexParameters(g, params) ==
    [g EXCEPT !.texParams = @ \cup
        { [texture |-> g.boundCube[g.activeUnit], pname |-> q.pname,
           param |-> q.param] : q \in params }]

\* gl.bindTexture(target, texture): binds on the active texture unit.
BindTexture(g, target, texture) ==
    IF target = "TEXTURE_CUBE_MAP"
    THEN [g EXCEPT !.boundCube[g.activeUnit] = texture]
    ELSE g

NoPromise == [state |-> "none", value |-> Null]

TextureInit ==
    /\ images = << >>
    /\ loadOrder = << >>
    /\ cubePromise = NoPromise
    /\ glTex = [nextId |-> 1, activeUnit |-> "TEXTURE0",
                boundCube |-> [u \in TextureUnits |-> Null],
                texParams |-> {}]
    /\ texUploads = << >>
    /\ textures = << >>

\* Texture.cubemapFromUrl(negX, negY, negZ, posX, posY, posZ): the six
\* requests start and the pending promise is returned.
CubemapFromUrl ==
    /\ cubePromise.state = "none"
    /\ \E urls \in UrlChoices : images' = CubemapRequests(urls)
    /\ cubePromise' = [state |-> "pending", value |-> Null]
    /\ UNCHANGED <<loadOrder, glTex, texUploads, textures>>
    /\ UNCHANGED <<shaderVars, meshVars, cameraVars>>

\* image.onload fires for one face: its promise resolves with the image.
ImageLoaded ==
    /\ \E i \in DOMAIN images :
        /\ images[i].status = "loading"
        /\ images' = [images EXCEPT ![i].status = "loaded"]
        /\ loadOrder' = Append(loadOrder, i)
    /\ UNCHANGED <<cubePromise, glTex, texUploads, textures>>
    /\ UNCHANGED <<shaderVars, meshVars, cameraVars>>

\* The load of one face fails: onload never fires for it, no handler runs.
ImageFailed ==
    /\ \E i \in DOMAIN images :
        /\ images[i].status = "loading"
        /\ images' = [images EXCEPT ![i].status = "failed"]
    /\ UNCHANGED <<loadOrder, cubePromise, glTex, texUploads, textures>>
    /\ UNCHANGED <<shaderVars, meshVars, cameraVars>>

\* The then-callback of Promise.all in cubemapFromUrl.
JoinCallback ==
    /\ cubePromise.state = "pending"
    /\ AllLoaded(images)
    /\ LET values == PromiseAllValues(images, loadOrder)
           tex == [NewTexture(glTex) EXCEPT !.textureType = "TEXTURE_CUBE_MAP"]
           g1 == [glTex EXCEPT !.nextId = @ + 1]
           g2 == BindTexture(g1, "TEXTURE_CUBE_MAP", tex.texture)
       IN  /\ glTex' = TexParameters(g2, CubemapParameters)
           /\ texUploads' = texUploads \o
                  [i \in 1..Len(values) |-> TexImage2D(values[i])]
           /\ textures' = Append(textures, tex)
           /\ cubePromise' = [state |-> "resolved", value |-> tex]
           /\ consoleLog' = consoleLog \o
                  [i \in 1..Len(values) |-> values[i].src]
    /\ UNCHANGED <<images, loadOrder>>
    /\ UNCHANGED <<glShader, alerts, shaderCalls, meshVars, cameraVars>>

\* tex.bind(number) by the code that received the texture; a missing
\* number means gl.TEXTURE0.
Bind ==
    /\ \E t \in 1..Len(textures), number \in TextureUnits \cup {"undefined"} :
        LET unit == IF number = "undefined" THEN "TEXTURE0" ELSE number
            g1 == [glTex EXCEPT !.activeUnit = unit]
        IN  glTex' = BindTexture(g1, textures[t].textureType, textures[t].texture)
    /\ UNCHANGED <<images, loadOrder, cubePromise, texUploads, textures>>
    /\ UNCHANGED <<shaderVars, meshVars, cameraVars>>

TextureNext ==
    CubemapFromUrl \/ ImageLoaded \/ ImageFailed \/ JoinCallback \/ Bind


(***************************************************************************)
(* The camera file: class Camera.  Vectors are triples, quaternions        *)
(* <<x, y, z, w>>, matrices 16-tuples in column-major order, as in the     *)
(* glMatrix library the class calls.  Arithmetic is exact: the model keeps *)
(* to angles and directions whose sines, cosines and lengths are integers. *)
(***************************************************************************)
MaxTranslate == 1       \* |translation[j]| the model lets a camera reach


\* Math.sqrt on the perfect squares the model meets.
ISqrt(n) == CHOOSE r \in 0..n : r * r = n

\* v / |v| for a vector of integer length, the zero vector for |v| = 0
\* (the normalisation steps inside mat4.lookAt).
Vec3NormalizeInt(v) ==
    LET len == ISqrt(Vec3Dot(v, v))
    IN  IF len = 0 THEN << 0, 0, 0 >>
        ELSE << v[1] \div len, v[2] \div len, v[3] \div len >>

Mat4Identity == << 1,0,0,0, 0,1,0,0, 0,0,1,0, 0,0,0,1 >>

\* mat4.lookAt(out, eye, center, up)
Mat4LookAt(eye, center, up) ==
    IF eye = center THEN Mat4Identity
    ELSE LET z == Vec3NormalizeInt(Vec3Subtract(eye, center))
             x == Vec3NormalizeInt(Vec3Cross(up, z))
             y == Vec3NormalizeInt(Vec3Cross(z, x))
         IN  << x[1], y[1], z[1], 0,
                x[2], y[2], z[2], 0,
                x[3], y[3], z[3], 0,
                -Vec3Dot(x, eye), -Vec3Dot(y, eye), -Vec3Dot(z, eye), 1 >>

\* mat4.fromQuat(out, q)
Mat4FromQuat(q) ==
    LET x == q[1]  y == q[2]  z == q[3]  w == q[4]
        x2 == x + x  y2 == y + y  z2 == z + z
        xx == x * x2  yx == y * x2  yy == y * y2
        zx == z * x2  zy == z * y2  zz == z * z2
        wx == w * x2  wy == w * y2  wz == w * z2
    IN  << 1 - yy - zz, yx + wz, zx - wy, 0,
           yx - wz, 1 - xx - zz, zy + wx, 0,
           zx + wy, zy - wx, 1 - xx - yy, 0,
           0, 0, 0, 1 >>

\* mat4.fromTranslation(out, v)
Mat4FromTranslation(v) == << 1,0,0,0, 0,1,0,0, 0,0,1,0, v[1], v[2], v[3], 1 >>

\* mat4.multiply(out, a, b): out = a * b, column-major
Mat4Multiply(a, b) ==
    [n \in 1..16 |->
        LET i == (n - 1) % 4
            j == (n - 1) \div 4
        IN  a[i + 1] * b[4 * j + 1] + a[i + 5] * b[4 * j + 2]
              + a[i + 9] * b[4 * j + 3] + a[i + 13] * b[4 * j + 4]]

QuatIdentity == << 0, 0, 0, 1 >>

\* quat.multiply(out, a, b)
QuatMultiply(a, b) ==
    << a[1] * b[4] + a[4] * b[1] + a[2] * b[3] - a[3] * b[2],
       a[2] * b[4] + a[4] * b[2] + a[3] * b[1] - a[1] * b[3],
       a[3] * b[4] + a[4] * b[3] + a[1] * b[2] - a[2] * b[1],
       a[4] * b[4] - a[1] * b[1] - a[2] * b[2] - a[3] * b[3] >>

\* quat.conjugate(out, a)
QuatConjugate(a) == << -a[1], -a[2], -a[3], a[4] >>

\* vec3.transformQuat(out, a, q)
Vec3TransformQuat(a, q) ==
    LET qv == << q[1], q[2], q[3] >>
        uv == Vec3Cross(qv, a)
        uuv == Vec3Cross(qv, uv)
        w2 == 2 * q[4]
    IN  << a[1] + uv[1] * w2 + 2 * uuv[1],
           a[2] + uv[2] * w2 + 2 * uuv[2],
           a[3] + uv[3] * w2 + 2 * uuv[3] >>

\* The angles the model turns a camera by: multiples of 180 degrees, given
\* as the number of half turns.  SinHalf and CosHalf are Math.sin and
\* Math.cos of half of -degToRad(180 * halfTurns), that is of
\* -halfTurns * pi / 2.
HalfTurns == -1..2
SinHalf(halfTurns) ==
    CASE halfTurns % 4 = 0 -> 0
      [] halfTurns % 4 = 1 -> -1
      [] halfTurns % 4 = 2 -> 0
      [] halfTurns % 4 = 3 -> 1
CosHalf(halfTurns) ==
    CASE halfTurns % 4 = 0 -> 1
      [] halfTurns % 4 = 1 -> 0
      [] halfTurns % 4 = 2 -> -1
      [] halfTurns % 4 = 3 -> 0

\* quat.setAxisAngle(out, axis, -degToRad(degrees))
QuatSetAxisAngle(axis, halfTurns) ==
    LET s == SinHalf(halfTurns)
    IN  << s * axis[1], s * axis[2], s * axis[3], CosHalf(halfTurns) >>

\* quat.rotateX / rotateY / rotateZ (out, a, -degToRad(degrees)): a
\* multiplied on the right by the rotation about the axis.
QuatRotateAxis(a, axis, halfTurns) ==
    QuatMultiply(a, QuatSetAxisAngle(axis, halfTurns))

AxisX == << 1, 0, 0 >>
AxisY == << 0, 1, 0 >>
AxisZ == << 0, 0, 1 >>
Axes3 == { AxisX, AxisY, AxisZ }

\* new Camera(origin, lookDirection)
NewCamera(origin, lookDirection) ==
    LET eyePoint == origin
        up == << 0, 1, 0 >>
        viewPoint == Vec3Add(eyePoint, lookDirection)
    IN  [eyePoint |-> eyePoint, up |-> up, viewPoint |-> viewPoint,
         translation |-> << 0, 0, 0 >>, rotation |-> QuatIdentity,
         lookDirection |-> lookDirection,
         lookAtMatrix |-> Mat4LookAt(eyePoint, viewPoint, up)]

\* Mutant of GetViewMatrix: the product with lookAtMatrix is left out.
GetViewMatrixNoLookAt(cam) ==
    Mat4Multiply(Mat4FromQuat(cam.rotation),
                 Mat4FromTranslation(cam.translation))

\* camera.getViewMatrix(outMatrix): the matrix written to outMatrix
GetViewMatrix(cam) ==
    LET rot == Mat4FromQuat(cam.rotation)
        trans == Mat4FromTranslation(cam.translation)
    IN  Mat4Multiply(Mat4Multiply(rot, trans), cam.lookAtMatrix)

\* camera.getLocalVector(x, y, z)
GetLocalVector(cam, v) == Vec3TransformQuat(v, QuatConjugate(cam.rotation))

\* rotateX, rotateY, rotateZ
RotateWorld(cam, axis, halfTurns) ==
    [cam EXCEPT !.rotation = QuatRotateAxis(@, axis, halfTurns)]

\* rotateLocalX, rotateLocalY, rotateLocalZ
RotateLocal(cam, axis, halfTurns) ==
    LET rotQuat == QuatSetAxisAngle(GetLocalVector(cam, axis), halfTurns)
    IN  [cam EXCEPT !.rotation = QuatMultiply(@, rotQuat)]

\* setWorldPos(x, y, z)
SetWorldPos(cam, p) == [cam EXCEPT !.translation = p]

\* translate(x, y, z)
Translate(cam, d) == [cam EXCEPT !.translation = Vec3Subtract(@, d)]

\* translateLocal(x, y, z)
TranslateLocal(cam, d) ==
    LET amt == Vec3TransformQuat(d, QuatConjugate(cam.rotation))
    IN  [cam EXCEPT !.translation = Vec3Subtract(@, amt)]

\* Constructor arguments the model tries.  The look directions are along
\* an axis (the direction of up included) or zero.
CameraOrigins == { << 0, 0, 0 >>, << 1, -2, 3 >> }
LookDirections ==
    { << 0, 0, -1 >>, << 2, 0, 0 >>, << 0, 0, 3 >>, << 0, 1, 0 >>, << 0, 0, 0 >> }

Steps == { << x, y, z >> : x \in -1..1, y \in -1..1, z \in -1..1 }
InReach(v) == \A j \in 1..3 : v[j] \in -MaxTranslate..MaxTranslate

NoMatrix == << >>
NoCamera == [kind |-> "none"]
NoCall == [op |-> "none"]

CameraInit ==
    /\ \E origin \in CameraOrigins, lookDirection \in LookDirections :
        camera = NewCamera(origin, lookDirection)
    /\ viewOut = NoMatrix
    /\ camTouched = FALSE
    /\ camLast = NoCall

\* No camera is constructed (the other classes' specifications).
CameraIdle ==
    /\ camera = NoCamera
    /\ viewOut = NoMatrix
    /\ camTouched = FALSE
    /\ camLast = NoCall

\* viewOut is the matrix getViewMatrix wrote since the camera last changed.
CameraGetViewMatrix ==
    /\ viewOut' = GetViewMatrix(camera)
    /\ UNCHANGED <<camera, camTouched, camLast>>
    /\ UNCHANGED <<shaderVars, meshVars, textureVars>>

CameraChange(cam, call) ==
    /\ InReach(cam.translation)
    /\ camera' = cam
    /\ viewOut' = NoMatrix
    /\ camTouched' = TRUE
    /\ camLast' = call
    /\ UNCHANGED <<shaderVars, meshVars, textureVars>>

CameraRotate ==
    \E axis \in Axes3, halfTurns \in HalfTurns :
        CameraChange(RotateWorld(camera, axis, halfTurns), [op |-> "rotate"])

CameraRotateLocal ==
    \E axis \in Axes3, halfTurns \in HalfTurns :
        CameraChange(RotateLocal(camera, axis, halfTurns), [op |-> "rotateLocal"])

CameraSetWorldPos ==
    \E p \in Steps :
        CameraChange(SetWorldPos(camera, p), [op |-> "setWorldPos", arg |-> p])

CameraTranslate ==
    \E d \in Steps :
        CameraChange(Translate(camera, d), [op |-> "translate"])

CameraTranslateLocal ==
    \E d \in Steps :
        CameraChange(TranslateLocal(camera, d), [op |-> "translateLocal"])

CameraNext ==
    \/ CameraGetViewMatrix
    \/ CameraRotate
    \/ CameraRotateLocal
    \/ CameraSetWorldPos
    \/ CameraTranslate
    \/ CameraTranslateLocal


(***************************************************************************)
(* The specifications: one per class.                                      *)
(***************************************************************************)
ShaderSpecInit == ShaderInit /\ MeshIdle /\ TextureInit /\ CameraIdle
MeshSpecInit == ShaderInit /\ MeshInit /\ TextureInit /\ CameraIdle
TextureSpecInit == ShaderInit /\ MeshIdle /\ TextureInit /\ CameraIdle
CameraSpecInit == ShaderInit /\ MeshIdle /\ TextureInit /\ CameraInit

ShaderSpec == ShaderSpecInit /\ [][ShaderNext]_vars
MeshSpec == MeshSpecInit /\ [][MeshNext]_vars
TextureSpec == TextureSpecInit /\ [][TextureNext]_vars
CameraSpec == CameraSpecInit /\ [][CameraNext]_vars


(***************************************************************************)
(* Properties of Shader.fromDOM (ShaderSpec)                               *)
(***************************************************************************)
\* C1: Shader.fromDOM returns null whenever the vertex compilation, the
\* fragment compilation or the link failed, and a Shader it returns has a
\* non-null program handle.
C1_FromDOMNullOnAnyFailure ==
    \A i \in 1..Len(shaderCalls) :
        LET c == shaderCalls[i]
        IN  /\ ~(c.vertOK /\ c.fragOK /\ c.linkOK) => c.ret = Null
            /\ c.ret # Null => c.ret.program # Null

(***************************************************************************)
(* Properties of Mesh (MeshSpec)                                           *)
(***************************************************************************)
VertexCount(m) == Len(m.vertices) \div 3
Coordinate(m, v, j) == m.vertices[3 * v + j]
AllNumeric(arr) == \A i \in 1..Len(arr) : IsNum(arr[i])
CoordinateSet(m, j) == { Coordinate(m, v, j).n : v \in 0..(VertexCount(m) - 1) }
MinOf(S) == CHOOSE x \in S : \A y \in S : x <= y
MaxOf(S) == CHOOSE x \in S : \A y \in S : x >= y

\* C2: after computeAABB on a freshly constructed mesh with a non-empty
\* vertex list, minXYZ[j] and maxXYZ[j] are the least and the greatest
\* coordinate j over the vertices, for each axis j.
C2_AABBIsCoordinateMinMax ==
    (mesh # NoMesh /\ Len(mesh.vertices) > 0 /\ AllNumeric(mesh.vertices)) =>
        \A j \in 1..3 :
            /\ mesh.minXYZ[j] = Num(MinOf(CoordinateSet(mesh, j)))
            /\ mesh.maxXYZ[j] = Num(MaxOf(CoordinateSet(mesh, j)))

\* The lines of the text fromObj was called with, and the first
\* space-separated token of a line.
InputLines == SplitChar(meshInput.fileText, "\n")
FirstToken(line) ==
    LET i == IndexOf(line, " ")
    IN  IF i = 0 THEN line ELSE SubSeq(line, 1, i - 1)
CountLines(lines, Test(_)) == Cardinality({ i \in 1..Len(lines) : Test(lines[i]) })

\* A vertex line in the words of C5: "v" followed by three coordinates;
\* a face line: "f" followed by three indices.
HasThreeNumbers(line) ==
    LET t == SplitSpaces(line)
    IN  Len(t) >= 4 /\ \A i \in 2..4 : IsNum(ParseInt(t[i]))
IsVertexLine(line) == FirstToken(line) = << "v" >> /\ HasThreeNumbers(line)
IsFaceLine(line) == FirstToken(line) = << "f" >> /\ HasThreeNumbers(line)
StartsWithV(line) == FirstToken(line) = << "v" >>
StartsWithF(line) == FirstToken(line) = << "f" >>

\* The face indices a text writes, less one each, line by line: NaN where
\* the token is missing or does not start with an integer.
RECURSIVE WrittenFaces(_)
WrittenFaces(lines) ==
    IF lines = << >> THEN << >>
    ELSE LET t == SplitSpaces(Head(lines))
             idx(i) == IF i <= Len(t) /\ IsNum(ParseInt(t[i]))
                       THEN Num(ParseInt(t[i]).n - 1) ELSE NaN
         IN  (IF StartsWithF(Head(lines))
              THEN << idx(2), idx(3), idx(4) >> ELSE << >>)
                 \o WrittenFaces(Tail(lines))

\* C5, as claimed: numVertices is the number of vertex lines ("v" and three
\* coordinates), numFaces the number of face lines ("f" and three indices),
\* and every stored face index is the written index less 1.
C5_CountsMatchWellFormedLines ==
    meshInput.op = "fromObj" =>
        /\ mesh.numVertices = CountLines(InputLines, IsVertexLine)
        /\ mesh.numFaces = CountLines(InputLines, IsFaceLine)
        /\ AllNumeric(mesh.faces)
        /\ mesh.faces = WrittenFaces(InputLines)

\* C5, amended: numVertices is the number of lines whose first token is
\* exactly "v", numFaces the number whose first token is exactly "f",
\* whether or not three numbers follow; the stored face indices are, line
\* by line, parseInt of the second to fourth tokens less 1: the written
\* index less 1 for a decimal integer, NaN for a token that is missing or
\* holds no number.
C5_CountsMatchFirstTokens ==
    meshInput.op = "fromObj" =>
        /\ mesh.numVertices = CountLines(InputLines, StartsWithV)
        /\ mesh.numFaces = CountLines(InputLines, StartsWithF)
        /\ Len(mesh.vertices) = 3 * mesh.numVertices
        /\ mesh.faces = WrittenFaces(InputLines)

\* C5 witness: a text with vertex lines, a face line and a line "v 1 2"
\* that is short of a coordinate was loaded.
C5_Witness ==
    /\ meshInput.op = "fromObj"
    /\ CountLines(InputLines, IsVertexLine) >= 1
    /\ CountLines(InputLines, IsFaceLine) >= 1
    /\ CountLines(InputLines, StartsWithV) > CountLines(InputLines, IsVertexLine)
    /\ mesh.numVertices = 2
    /\ mesh.numFaces = 1

\* The vector of vertex v (0-based) held in a flat array
VectorAt(arr, v) == << arr[3 * v + 1], arr[3 * v + 2], arr[3 * v + 3] >>
Sign(i) == IF i < 0 THEN -1 ELSE IF i > 0 THEN 1 ELSE 0

\* w is c / sqrt(len2), for a number w = n / sqrt(d2)
IsQuotientByRoot(w, c, len2) ==
    /\ w.k \in { "num", "unit" }
    /\ Sign(w.n) = Sign(c)
    /\ w.n * w.n * len2 = c * c * w.d2

\* The mesh is one triangle: three numeric vertices and one face over them.
SingleTriangle ==
    /\ mesh # NoMesh
    /\ mesh.numVertices = 3 /\ Len(mesh.vertices) = 9
    /\ mesh.numFaces = 1 /\ Len(mesh.faces) = 3
    /\ AllNumeric(mesh.vertices)
    /\ { mesh.faces[i] : i \in 1..3 } = { Num(0), Num(1), Num(2) }

\* (v2 - v1) x (v3 - v1) for the vertices the face names, in its order
TriangleCross ==
    LET P(h) == LET v == VectorAt(mesh.vertices, mesh.faces[h].n)
                IN  << v[1].n, v[2].n, v[3].n >>
    IN  Vec3Cross(Vec3Subtract(P(2), P(1)), Vec3Subtract(P(3), P(1)))

\* C6: for a single non-degenerate triangle (v1, v2, v3), each vertex
\* accumulates exactly (v2 - v1) x (v3 - v1) and, after generateNormals,
\* the three normals are equal and are that cross product normalised.
C6_TriangleNormals ==
    (SingleTriangle /\ TriangleCross # << 0, 0, 0 >>) =>
        LET c == TriangleCross
            len2 == Vec3Dot(c, c)
        IN  /\ Len(mesh.normals) = 9 /\ Len(normalsAccum) = 9
            /\ \A v \in 0..2 :
                /\ VectorAt(normalsAccum, v) = << Num(c[1]), Num(c[2]), Num(c[3]) >>
                /\ VectorAt(mesh.normals, v) = VectorAt(mesh.normals, 0)
                /\ \A j \in 1..3 :
                    IsQuotientByRoot(VectorAt(mesh.normals, v)[j], c[j], len2)

\* C6 witness: a triangle whose normal is along no axis, so that the
\* normalised components are irrational.
C6_Witness ==
    /\ SingleTriangle
    /\ \A j \in 1..3 : TriangleCross[j] # 0
    /\ mesh.normals[1].k = "unit"

\* A line C9 calls skipped, and the text without such lines
IsSkippedLine(line) ==
    \/ line = << >>
    \/ line[1] = "#"
    \/ FirstToken(line) \notin { << "v" >>, << "f" >> }
IsKeptLine(line) == ~IsSkippedLine(line)
TextWithoutSkippedLines == JoinLines(SelectSeq(InputLines, IsKeptLine))

\* C9: a line of the text that is no vertex or face line (a comment, a
\* blank line, a line whose first token is neither "v" nor "f") changes
\* nothing: the mesh is the one fromObj builds from the text without it.
C9_SkippedLinesChangeNothing ==
    meshInput.op = "fromObj" =>
        \E r \in { MeshFromObj(TextWithoutSkippedLines,
                       [glMesh EXCEPT !.nextId = 1, !.arrayBuffer = Null,
                           !.elementArrayBuffer = Null, !.bufferData = {}]) } :
            /\ mesh = r.mesh
            /\ normalsAccum = r.accum
            /\ glMesh = r.gl

\* C9 witness: a text with a comment, a "vn" line and a vertex line.
C9_Witness ==
    /\ meshInput.op = "fromObj"
    /\ \E i \in 1..Len(InputLines) :
           InputLines[i] # << >> /\ InputLines[i][1] = "#"
    /\ \E i \in 1..Len(InputLines) : FirstToken(InputLines[i]) = << "v", "n" >>
    /\ mesh.numVertices = 1

\* C10: the mesh fromPlane returns for an axis x, y or z (either case)
\* holds, at all four vertices, the normal fromPlane assigns for the axis.
C10_PlaneNormalsAsAssigned ==
    (meshInput.op = "fromPlane"
        /\ meshInput.axis \in { "x", "X", "y", "Y", "z", "Z" }) =>
            mesh.normals = PlaneNormals(meshInput.axis)

\* A face index is an integer naming a vertex of the mesh.
FaceIndicesInRange(m) ==
    \A i \in 1..Len(m.faces) :
        IsNum(m.faces[i]) /\ m.faces[i].n \in 0..(m.numVertices - 1)

\* C11, as claimed: for every mesh fromObj, fromPlane or fromCube returns,
\* for any argument, vertices and normals hold 3 * numVertices numbers,
\* faces holds 3 * numFaces, indexBuffer.numItems is faces.length, and
\* every face index is an integer in 0 .. numVertices - 1.
C11_ArraysAgreeWithCounts ==
    mesh # NoMesh =>
        /\ Len(mesh.vertices) = 3 * mesh.numVertices
        /\ Len(mesh.normals) = 3 * mesh.numVertices
        /\ Len(mesh.faces) = 3 * mesh.numFaces
        /\ mesh.indexBuffer.numItems = Len(mesh.faces)
        /\ FaceIndicesInRange(mesh)

\* The arguments C11 holds for: any size, an axis x, y or z in either
\* case, and for fromObj the texts whose stored face indices all name a
\* vertex of the text.
PlaneAxisKnown == meshInput.axis \in { "x", "X", "y", "Y", "z", "Z" }
ObjWellIndexed ==
    \A i \in 1..Len(WrittenFaces(InputLines)) :
        LET f == WrittenFaces(InputLines)[i]
        IN  IsNum(f) /\ f.n >= 0
                /\ f.n < CountLines(InputLines, StartsWithV)

\* C11, amended: faces.length = 3 * numFaces and indexBuffer.numItems =
\* faces.length hold for every mesh of the three factories; vertices.length
\* = 3 * numVertices holds for fromObj, for fromCube and for fromPlane with
\* an axis x, y or z; normals.length = 3 * numVertices and the range of the
\* face indices hold for fromPlane, for fromCube and for fromObj on a text
\* whose face lines name only vertices of the text.
C11_ArraysAgreeForKnownArguments ==
    mesh # NoMesh =>
        /\ Len(mesh.faces) = 3 * mesh.numFaces
        /\ mesh.indexBuffer.numItems = Len(mesh.faces)
        /\ (meshInput.op = "fromPlane" => PlaneAxisKnown)
               => Len(mesh.vertices) = 3 * mesh.numVertices
        /\ (meshInput.op = "fromObj" => ObjWellIndexed)
               => /\ Len(mesh.normals) = 3 * mesh.numVertices
                  /\ FaceIndicesInRange(mesh)

\* C11 witness: a text with three vertices and a face over them was
\* loaded, and its arrays agree with its counts.
C11_Witness ==
    /\ meshInput.op = "fromObj"
    /\ ObjWellIndexed
    /\ mesh.numVertices = 3
    /\ mesh.numFaces = 1
    /\ Len(mesh.normals) = 9

(***************************************************************************)
(* Properties of Camera (CameraSpec)                                       *)
(***************************************************************************)
\* C7: with identity rotation and zero translation (in particular before
\* any rotate*, translate* or setWorldPos call), getViewMatrix writes the
\* look-at matrix of eye = origin, target = origin + lookDirection,
\* up = (0, 1, 0).
C7_ViewMatrixIsLookAt ==
    /\ ~camTouched =>
           camera.rotation = QuatIdentity /\ camera.translation = << 0, 0, 0 >>
    /\ (viewOut # NoMatrix /\ camera.rotation = QuatIdentity
            /\ camera.translation = << 0, 0, 0 >>) =>
           viewOut = Mat4LookAt(camera.eyePoint,
                         Vec3Add(camera.eyePoint, camera.lookDirection),
                         << 0, 1, 0 >>)

\* C7 witness: getViewMatrix ran on an untouched camera whose look-at
\* matrix is not the identity.
C7_Witness ==
    /\ ~camTouched
    /\ viewOut # NoMatrix
    /\ viewOut # Mat4Identity
    /\ camera.eyePoint # << 0, 0, 0 >>

\* C12: setWorldPos and translate use one world-coordinate convention: on
\* a camera whose translation setWorldPos(p) set, translate(d) leaves the
\* translation setWorldPos(p + d) would leave, for every p and d; and both
\* calls leave the rotation and the look-at matrix as they were.
C12_TranslateAgreesWithSetWorldPos ==
    [][ /\ (camLast.op = "setWorldPos" /\ camLast'.op = "translate") =>
            \A d \in Steps :
                camera' = Translate(camera, d) =>
                    camera'.translation =
                        SetWorldPos(camera, Vec3Add(camLast.arg, d)).translation
        /\ camLast'.op \in { "setWorldPos", "translate" } =>
            /\ camera'.rotation = camera.rotation
            /\ camera'.lookAtMatrix = camera.lookAtMatrix ]_vars

(***************************************************************************)
(* Properties of Texture.cubemapFromUrl (TextureSpec)                      *)
(***************************************************************************)
Resolved == cubePromise.state = "resolved"

\* C3: the promise of cubemapFromUrl resolves only after all six images
\* fired onload; whatever the order the loads completed in, the six uploads
\* are made in the order requested, each image to the face it was
\* requested for; no texture exists and nothing is uploaded before the
\* sixth load completes.
C3_JoinInRequestOrder ==
    /\ (Resolved \/ textures # << >> \/ texUploads # << >>) =>
           /\ Len(loadOrder) = Len(CubeFaces)
           /\ \A i \in FaceIds : images[i].status = "loaded"
    /\ Resolved =>
           /\ Len(texUploads) = Len(CubeFaces)
           /\ \A i \in FaceIds :
                  /\ texUploads[i].target = CubeFaces[i]
                  /\ texUploads[i].image = i
                  /\ texUploads[i].src = images[i].src
           /\ cubePromise.value = textures[Len(textures)]

\* C3 witness: the promise resolved although the last face requested was
\* the first to load and the first requested the last.
C3_Witness ==
    /\ Resolved
    /\ loadOrder[1] = Len(CubeFaces)
    /\ loadOrder[Len(CubeFaces)] = 1
    /\ Len(texUploads) = Len(CubeFaces)

\* C4: the join callback of cubemapFromUrl leaves the context state other
\* code observes as it was: the textures bound to the cube-map target are
\* the same after the step that resolves the promise as before it.
C4_JoinLeavesCubeBindingAlone ==
    [][(cubePromise.state = "pending" /\ cubePromise'.state = "resolved")
          => glTex'.boundCube = glTex.boundCube]_vars

\* C8: once one of the six loads has failed, the promise is neither
\* resolved nor rejected, no Texture exists and no upload was made, however
\* many of the other loads completed.
C8_FailedLoadNeverJoins ==
    (\E i \in DOMAIN images : images[i].status = "failed") =>
        /\ cubePromise.state = "pending"
        /\ textures = << >>
        /\ texUploads = << >>

\* C8 witness: one load failed and the other five completed.
C8_Witness ==
    /\ Cardinality({ i \in DOMAIN images : images[i].status = "failed" }) = 1
    /\ Len(loadOrder) = Len(CubeFaces) - 1
    /\ cubePromise.state = "pending"

=============================================================================
